---- MODULE Spec2Model ----
(***************************************************************************)
(* MaplibreStarfieldLayer (src/src/layer.ts): a MapLibre custom layer that *)
(* draws a galaxy sphere, point stars and a procedural sun with three.js.  *)
(*                                                                         *)
(* Numbers.  Fade values are exact rationals over FadeOne = 18^3, the      *)
(* denominator of t*t*(3-2t) with t = -altitude/18 at integer altitudes.   *)
(* Sines and cosines are read from a one-degree table of 16 decimals;      *)
(* uniforms and positions are fixed-point values over Scale = 10^8.        *)
(* Intensities are in tenths.  Matrices are 16-tuples in three.js          *)
(* column-major order; a matrix that went through invert() is an exact     *)
(* rational matrix [num, den] in lowest terms.                             *)
(*                                                                         *)
(* Objects.  Every onAdd builds a new generation g of objects (scene,      *)
(* star Points, sun mesh, renderer, and, when its texture load succeeds,   *)
(* a galaxy mesh).  A reference to one of them is its generation number,   *)
(* 0 is null.                                                              *)
(***************************************************************************)
EXTENDS Integers, Sequences, FiniteSets, TLC

\* ------------------------------------------------------------------------
\* Bounds of the model
\* ------------------------------------------------------------------------
MaxAdds == 2

\* ------------------------------------------------------------------------
\* Fixed-point units and input sets
\* ------------------------------------------------------------------------
FadeOne == 5832

NoMap == "nomap"
Maps == {"mapA", "mapB"}
\* the host adds the layer to one map, and after a removal to the other
HostMap(g) == IF g % 2 = 1 THEN "mapA" ELSE "mapB"
NoUrl == ""
Urls == {NoUrl, "milkyway.jpg"}

\* the (azimuth, altitude) pairs the application sets
SunPositions == { <<180, -30>>, <<90, -9>>, <<180, 10>> }
Sizes == {50, 100}
Intensities == {0, 15}
StarCounts == {2}
InvalidStarCounts == {-1}
StarSizes == {2}

Gens == 1..MaxAdds

\* Math.acos(2 * u - 1) in degrees for the draws u = 0, 1/4, 1/2, 3/4
AcosTable == <<180, 120, 90, 60>>

\* a draw of Math.random() is n / RandDen with n in 0 .. RandDen - 1
RandDen == Len(AcosTable)

\* the draws of Math.random() during one onAdd, as numerators over RandDen
RandomStreams ==
  { <<0, 0, 0, 0, 1, 1, 1, 1>>,
    <<1, 2, 3, 3, 2, 3, 0, 1>> }

\* ------------------------------------------------------------------------
\* Helpers (layer.ts 252-303)
\* ------------------------------------------------------------------------
\* sin of 0, 1, ..., 90 degrees to 16 decimals, each as two digits
\* <<high, low>> of base 10^8: sin = (high * 10^8 + low) / 10^16
SinTable ==
  <<<<0, 0>>, <<1745240, 64372835>>, <<3489949, 67025010>>,
    <<5233595, 62429438>>, <<6975647, 37441253>>, <<8715574, 27476582>>,
    <<10452846, 32676535>>, <<12186934, 34051475>>, <<13917310, 9600654>>,
    <<15643446, 50402309>>, <<17364817, 76669303>>, <<19080899, 53765448>>,
    <<20791169, 8177593>>, <<22495105, 43438650>>, <<24192189, 55996677>>,
    <<25881904, 51025208>>, <<27563735, 58169992>>, <<29237170, 47227367>>,
    <<30901699, 43749474>>, <<32556815, 44571567>>, <<34202014, 33256687>>,
    <<35836794, 95453003>>, <<37460659, 34159120>>, <<39073112, 84892738>>,
    <<40673664, 30758002>>, <<42261826, 17406994>>, <<43837114, 67890774>>,
    <<45399049, 97395468>>, <<46947156, 27858908>>, <<48480962, 2463370>>,
    <<50000000, 0>>, <<51503807, 49100542>>, <<52991926, 42332050>>,
    <<54463903, 50150271>>, <<55919290, 34707468>>, <<57357643, 63510461>>,
    <<58778525, 22924731>>, <<60181502, 31520483>>, <<61566147, 53256583>>,
    <<62932039, 10498375>>, <<64278760, 96865393>>, <<65605902, 89905073>>,
    <<66913060, 63588582>>, <<68199836, 624985>>, <<69465837, 4589973>>,
    <<70710678, 11865475>>, <<71933980, 3386511>>, <<73135370, 16191705>>,
    <<74314482, 54773942>>, <<75470958, 2227720>>, <<76604444, 31189780>>,
    <<77714596, 14569709>>, <<78801075, 36067220>>, <<79863551, 472928>>,
    <<80901699, 43749474>>, <<81915204, 42889918>>, <<82903757, 25550417>>,
    <<83867056, 79454240>>, <<84804809, 61564260>>, <<85716730, 7021123>>,
    <<86602540, 37844386>>, <<87461970, 71393958>>, <<88294759, 28589269>>,
    <<89100652, 41883679>>, <<89879404, 62991670>>, <<90630778, 70366500>>,
    <<91354545, 76426009>>, <<92050485, 34524403>>, <<92718385, 45667874>>,
    <<93358042, 64972017>>, <<93969262, 7859084>>, <<94551857, 55993168>>,
    <<95105651, 62951536>>, <<95630475, 59630355>>, <<96126169, 59383189>>,
    <<96592582, 62890683>>, <<97029572, 62759965>>, <<97437006, 47852352>>,
    <<97814760, 7338056>>, <<98162718, 34476640>>, <<98480775, 30122081>>,
    <<98768834, 5951377>>, <<99026806, 87415703>>, <<99254615, 16413220>>,
    <<99452189, 53682733>>, <<99619469, 80917455>>, <<99756405, 2598242>>,
    <<99862953, 47545739>>, <<99939082, 70190957>>, <<99984769, 51563912>>,
    <<100000000, 0>> >>

\* 1.0 in the unit of the sun uniforms and of the star positions: 10^8
Scale == SinTable[91][1]

\* the arithmetic splits a number into digits of base Limb, so that no
\* partial product leaves the 32-bit integers: Scale = Limb * Limb
Limb == 10000

\* Math.sin of an angle in whole degrees, to 16 decimals:
\* <<sign, high, low>> is sign * (high * Scale + low) / Scale^2
MathSin(deg) ==
  LET d == deg % 360
  IN  IF d <= 90 THEN <<1>> \o SinTable[d + 1]
      ELSE IF d <= 180 THEN <<1>> \o SinTable[180 - d + 1]
      ELSE IF d <= 270 THEN <<-1>> \o SinTable[d - 180 + 1]
      ELSE <<-1>> \o SinTable[360 - d + 1]

\* Math.cos of an angle in whole degrees, to 16 decimals
MathCos(deg) == MathSin(deg + 90)

\* a number of 16 decimals to the nearest unit of Scale
Nearest(v) == v[1] * (v[2] + (IF 2 * v[3] >= Scale THEN 1 ELSE 0))

\* Math.sin and Math.cos of an angle in whole degrees, times Scale, to the
\* nearest unit
Sin(deg) == Nearest(MathSin(deg))
Cos(deg) == Nearest(MathCos(deg))

\* the magnitude of an integer
Abs(x) == IF x < 0 THEN -x ELSE x

\* the product a * b of two numbers of 16 decimals, to 16 decimals: the
\* long multiplication of their base-Limb digits, lowest digit first
Times(a, b) ==
  LET a1 == a[3] % Limb
      a2 == a[3] \div Limb
      a3 == a[2] % Limb
      a4 == a[2] \div Limb
      b1 == b[3] % Limb
      b2 == b[3] \div Limb
      b3 == b[2] % Limb
      b4 == b[2] \div Limb
      t1 == a1 * b1
      t2 == a1 * b2 + a2 * b1 + t1 \div Limb
      t3 == a1 * b3 + a2 * b2 + a3 * b1 + t2 \div Limb
      t4 == a1 * b4 + a2 * b3 + a3 * b2 + a4 * b1 + t3 \div Limb
            + Limb \div 2
      t5 == a2 * b4 + a3 * b3 + a4 * b2 + t4 \div Limb
      t6 == a3 * b4 + a4 * b3 + t5 \div Limb
      t7 == a4 * b4 + t6 \div Limb
  IN  << a[1] * b[1], t7, (t5 % Limb) + (t6 % Limb) * Limb >>

\* the product a * b of two numbers of 16 decimals, times Scale, to the
\* nearest unit
FixMul(a, b) == Nearest(Times(a, b))

\* digits of base Limb, lowest first, with their carries moved up
RECURSIVE Reduced(_, _)
Reduced(seq, carry) ==
  IF seq = <<>>
  THEN IF carry = 0 THEN <<>>
       ELSE <<carry % Limb>> \o Reduced(<<>>, carry \div Limb)
  ELSE LET t == Head(seq) + carry
       IN  <<t % Limb>> \o Reduced(Tail(seq), t \div Limb)

\* the digits of c times the number of digits seq
Scaled(seq, c) == Reduced([i \in 1..Len(seq) |-> seq[i] * c], 0)

\* the digits 1..i of the number of digits seq divided by d, rounded down
RECURSIVE Quotient(_, _, _, _)
Quotient(seq, d, i, rem) ==
  IF i = 0 THEN <<>>
  ELSE LET t == rem * Limb + seq[i]
       IN  Append(Quotient(seq, d, i - 1, t % d), t \div d)

\* the digits of the number of digits seq divided by 2^bits, rounded down
RECURSIVE ShiftedRight(_, _)
ShiftedRight(seq, bits) ==
  IF bits = 0 THEN seq
  ELSE IF bits >= 12
       THEN ShiftedRight(Quotient(seq, 4096, Len(seq), 0), bits - 12)
       ELSE ShiftedRight(Quotient(seq, 2, Len(seq), 0), bits - 1)

\* the number of digits seq
RECURSIVE ValueOf(_)
ValueOf(seq) ==
  IF seq = <<>> THEN 0 ELSE Head(seq) + Limb * ValueOf(Tail(seq))

\* <<high, low, k>>: the magnitude doubled k times, until it is 0.5 or more
RECURSIVE Doubled(_, _, _)
Doubled(high, low, k) ==
  IF 2 * high >= Scale THEN <<high, low, k>>
  ELSE Doubled(2 * high + (2 * low) \div Scale, (2 * low) % Scale, k + 1)

\* a number of 16 decimals stored in a Float32Array element, times Scale,
\* to the nearest unit: the magnitude m * 2^k in [0.5, 1] is rounded to a
\* mantissa of 24 bits, round(m * 2^k * 2^24), and the stored value
\* mantissa / 2^(24 + k) is taken to the unit of Scale
fround(v) ==
  IF v[2] = 0 /\ v[3] = 0 THEN 0
  ELSE LET m == Doubled(v[2], v[3], 0)
           digits == << m[2] % Limb, m[2] \div Limb,
                        m[1] % Limb, m[1] \div Limb >>
           product == Scaled(Scaled(digits, 4096), 4096)
           rounded == Reduced([i \in 1..Len(product) |->
                                 IF i = 4 THEN product[i] + Limb \div 2
                                 ELSE product[i]], 0)
           mantissa == ValueOf(SubSeq(rounded, 5, Len(rounded)))
           twice == ValueOf(ShiftedRight(
                      <<0, 0, mantissa % Limb, mantissa \div Limb>>,
                      23 + m[3]))
       IN  v[1] * ((twice + 1) \div 2)

\* a direction whose horizontal part is not scaled by the cosine of the
\* altitude
sunDirectionFlat(azimuthDeg, altitudeDeg) ==
  << Sin(azimuthDeg), Sin(altitudeDeg), Cos(azimuthDeg) >>

\* a direction with the sine and cosine of the azimuth exchanged
sunDirectionSwapped(azimuthDeg, altitudeDeg) ==
  LET cosAlt == MathCos(altitudeDeg)
  IN  << FixMul(cosAlt, MathCos(azimuthDeg)),
         Sin(altitudeDeg),
         FixMul(cosAlt, MathSin(azimuthDeg)) >>

sunDirectionFromAngles(azimuthDeg, altitudeDeg) ==
  LET cosAlt == MathCos(altitudeDeg)
  IN  << FixMul(cosAlt, MathSin(azimuthDeg)),
         Sin(altitudeDeg),
         FixMul(cosAlt, MathCos(azimuthDeg)) >>

\* size is a multiple of 50, so that (size / 100) * 2.0 is a whole degree
sunSizeToCos(size) ==
  LET angularRadiusDeg == (size * 2) \div 100
  IN  Cos(angularRadiusDeg)

\* a fade with a linear ramp between the two breakpoints
computeStarFadeLinear(altitudeDeg) ==
  IF altitudeDeg >= 0 THEN 0
  ELSE IF altitudeDeg <= -18 THEN FadeOne
  ELSE (-altitudeDeg) * (FadeOne \div 18)

\* a fade whose ramp is not cut off at night
computeStarFadeUnclamped(altitudeDeg) ==
  IF altitudeDeg >= 0 THEN 0
  ELSE LET k == -altitudeDeg
       IN  k * k * (54 - 2 * k)

computeStarFade(altitudeDeg) ==
  IF altitudeDeg >= 0 THEN 0
  ELSE IF altitudeDeg <= -18 THEN FadeOne
  ELSE LET k == -altitudeDeg
       IN  k * k * (54 - 2 * k)

\* ------------------------------------------------------------------------
\* Matrix4 of three.js, as used by render
\* ------------------------------------------------------------------------
El(m, r, c) == m[c * 4 + r + 1]

\* the matrix with entry f(r, c) in row r, column c
MatOf(f(_, _)) ==
  << f(0, 0), f(1, 0), f(2, 0), f(3, 0),  f(0, 1), f(1, 1), f(2, 1), f(3, 1),
     f(0, 2), f(1, 2), f(2, 2), f(3, 2),  f(0, 3), f(1, 3), f(2, 3), f(3, 3) >>

Identity4 == MatOf(LAMBDA r, c : IF r = c THEN 1 ELSE 0)

Zero4 == MatOf(LAMBDA r, c : 0)

multiplyMatrices(a, b) ==
  MatOf(LAMBDA r, c :
          El(a, r, 0) * El(b, 0, c) + El(a, r, 1) * El(b, 1, c)
        + El(a, r, 2) * El(b, 2, c) + El(a, r, 3) * El(b, 3, c))

\* the three indices other than k, in increasing order
Others(k) ==
  IF k = 0 THEN <<1, 2, 3>>
  ELSE IF k = 1 THEN <<0, 2, 3>>
  ELSE IF k = 2 THEN <<0, 1, 3>>
  ELSE <<0, 1, 2>>

\* determinant of m without row r and column c
Minor(m, r, c) ==
  LET rs == Others(r)
      cs == Others(c)
      e(i, j) == El(m, rs[i], cs[j])
  IN    e(1, 1) * (e(2, 2) * e(3, 3) - e(2, 3) * e(3, 2))
      - e(1, 2) * (e(2, 1) * e(3, 3) - e(2, 3) * e(3, 1))
      + e(1, 3) * (e(2, 1) * e(3, 2) - e(2, 2) * e(3, 1))

Cofactor(m, r, c) ==
  IF (r + c) % 2 = 0 THEN Minor(m, r, c) ELSE -Minor(m, r, c)

determinant(m) ==
    El(m, 0, 0) * Cofactor(m, 0, 0) + El(m, 0, 1) * Cofactor(m, 0, 1)
  + El(m, 0, 2) * Cofactor(m, 0, 2) + El(m, 0, 3) * Cofactor(m, 0, 3)

RECURSIVE Gcd(_, _)
Gcd(a, b) == IF b = 0 THEN Abs(a) ELSE Gcd(b, a % Abs(b))

RECURSIVE GcdOfSeq(_, _)
GcdOfSeq(s, g) == IF s = <<>> THEN g ELSE GcdOfSeq(Tail(s), Gcd(g, Head(s)))

\* the rational matrix num / den in lowest terms, den > 0
Rational(num, den) ==
  LET g == GcdOfSeq(num, Abs(den))
      s == IF den < 0 THEN -g ELSE g
  IN  [num |-> MatOf(LAMBDA r, c : El(num, r, c) \div s), den |-> den \div s]

OfIntegers(m) == [num |-> m, den |-> 1]

\* Matrix4.invert: the adjugate over the determinant, and the zero matrix
\* when the determinant is 0
invert(m) ==
  LET det == determinant(m)
  IN  IF det = 0 THEN OfIntegers(Zero4)
      ELSE Rational(MatOf(LAMBDA r, c : Cofactor(m, c, r)), det)

\* a strip that forgets e[14]
stripXY(m) == [m EXCEPT ![13] = 0, ![14] = 0]

\* no strip at all
stripNothing(m) == m

\* e[12] = 0; e[13] = 0; e[14] = 0
StripTranslation(m) == [m EXCEPT ![13] = 0, ![14] = 0, ![15] = 0]

\* the value render gives camera.projectionMatrix (layer.ts 524-540)
AlignedProjection(P, MVP) ==
  LET PInv == invert(P)
      MV == StripTranslation(multiplyMatrices(PInv.num, MVP))
  IN  Rational(multiplyMatrices(P, MV), PInv.den)

\* ------------------------------------------------------------------------
\* Matrices the host supplies
\* ------------------------------------------------------------------------
Perspective == <<2, 0, 0, 0,  0, 2, 0, 0,  0, 0, -1, -1,  0, 0, -2, 0>>
Orthographic == <<2, 0, 0, 0,  0, 3, 0, 0,  0, 0, -1, 0,  1, -1, 0, 1>>
Sheared == <<1, 0, 0, 0,  1, 1, 0, 0,  0, 2, 1, 0,  0, 0, 3, 1>>
Collapsed == <<2, 0, 0, 0,  0, 2, 0, 0,  0, 0, -1, -1,  0, 0, 0, 0>>

InvertibleProjections == {Perspective, Orthographic, Sheared}
SingularProjections == {Zero4, Collapsed}
Projections == InvertibleProjections \cup SingularProjections

\* rotation and scale parts of a view matrix (translation entries zero)
Linear1 == Identity4
Linear2 == <<0, 0, -2, 0,  0, 2, 0, 0,  2, 0, 0, 0,  0, 0, 0, 1>>
Linear3 == <<1, 2, 0, 0,  -2, 1, 0, 0,  0, 0, 3, 0,  0, 0, 0, 1>>
Linears == {Linear1, Linear2, Linear3}

Translations == { <<0, 0, 0>>, <<1, -2, 3>>, <<0, 0, -7>> }

View(lin, t) == [lin EXCEPT ![13] = t[1], ![14] = t[2], ![15] = t[3]]

Views == { View(lin, t) : lin \in Linears, t \in Translations }

\* ------------------------------------------------------------------------
\* Point stars (layer.ts 463-485)
\* ------------------------------------------------------------------------
SizeDen == 5 * RandDen
OpacityDen == 100 * RandDen

\* Math.acos(2 * u - 1) in degrees, u = n / RandDen
AcosOfDraw(n) == AcosTable[n + 1]

\* the three elements of positions written for one star (layer.ts 475-477):
\* each double is stored in a Float32Array
StarDirection(theta, phi) ==
  << fround(Times(MathSin(phi), MathCos(theta))),
     fround(Times(MathSin(phi), MathSin(theta))),
     fround(MathCos(phi)) >>

\* the positions of a star for every outcome n / RandDen, m / RandDen of
\* its first two draws: theta = 2 pi n / RandDen, phi = acos(2 m / RandDen
\* - 1) (layer.ts 472-473)
StarDirections ==
  [n \in 0..(RandDen - 1) |->
     [m \in 0..(RandDen - 1) |->
        StarDirection((n * 360) \div RandDen, AcosOfDraw(m))]]

\* a star whose opacity is the bare draw, without the 0.15 floor
dimStarPoint(i, size, draws) ==
  [ position |-> StarDirections[draws[4 * i + 1]][draws[4 * i + 2]],
    aSize |-> size * (2 * RandDen + 5 * draws[4 * i + 3]),
    aOpacity |-> 100 * draws[4 * i + 4] ]

\* the i-th star (i from 0) built from four consecutive draws:
\* position over Scale, size over SizeDen, opacity over OpacityDen
StarPoint(i, size, draws) ==
  [ position |-> StarDirections[draws[4 * i + 1]][draws[4 * i + 2]],
    aSize |-> size * (2 * RandDen + 5 * draws[4 * i + 3]),
    aOpacity |-> 15 * RandDen + 85 * draws[4 * i + 4] ]

GenerateStars(count, size, draws) ==
  [i \in 1..count |-> StarPoint(i - 1, size, draws)]

\* ------------------------------------------------------------------------
\* State
\* ------------------------------------------------------------------------
VARIABLES
  starCount, starSize, galaxyTextureUrl,
  _sunEnabled, _sunAzimuth, _sunAltitude, _sunSize, _sunIntensity,
  _autoFadeStars,
  renderer, scene, camera, map,
  starMaterial, galaxyMaterial, sunMesh, sunMaterial,
  children, starPoints, galaxyUFade, loads, created, disposals, adds,
  threw, drew, repainted, frame, fragment

options == <<starCount, starSize, galaxyTextureUrl, _autoFadeStars>>
sunState == <<_sunEnabled, _sunAzimuth, _sunAltitude, _sunSize, _sunIntensity>>
refs == <<renderer, scene, camera, map, starMaterial, galaxyMaterial,
          sunMesh, sunMaterial>>
heap == <<children, starPoints, galaxyUFade, loads, created, disposals, adds>>
call == <<threw, drew, repainted, frame>>
vars == <<options, sunState, refs, heap, call, fragment>>

Kinds == {"starGeometry", "starMaterial", "sunGeometry", "sunMaterial",
          "galaxyGeometry", "galaxyMaterial", "galaxyTexture", "renderer"}

NoCamera == [id |-> 0, projectionMatrix |-> OfIntegers(Identity4)]
NoStarMaterial == [id |-> 0, uFade |-> 0]
NoSunMesh == [id |-> 0, visible |-> FALSE]
NoSunMaterial ==
  [id |-> 0, uSunDirection |-> <<0, 0, 0>>, uSunIntensity |-> 0,
   uSunAngularRadius |-> 0]
NoLoad == [status |-> "none", map |-> NoMap, fade |-> 0]
NoFade == -1
\* no fragment of the sun mesh was shaded since the last call of the layer
NoFragment ==
  [r |-> -1, disc |-> 0, rays |-> 0, intensity |-> 0, written |-> FALSE,
   alpha |-> 0]
\* no render call was the last call
NoFrame == [projectionMatrix |-> <<>>, modelViewProjectionMatrix |-> <<>>]

\* the state right after the constructor (layer.ts 331-357), for a starCount
\* option among counts and a starSize option among sizes
Constructed(counts, sizes, positions) ==
  /\ starCount \in counts
  /\ starSize \in sizes
  /\ galaxyTextureUrl \in Urls
  /\ _sunEnabled \in BOOLEAN
  /\ \E pos \in positions : _sunAzimuth = pos[1] /\ _sunAltitude = pos[2]
  /\ _sunSize = 100
  /\ _sunIntensity = 15
  /\ _autoFadeStars \in BOOLEAN
  /\ renderer = 0
  /\ scene = 0
  /\ camera = NoCamera
  /\ map = NoMap
  /\ starMaterial = NoStarMaterial
  /\ galaxyMaterial = 0
  /\ sunMesh = NoSunMesh
  /\ sunMaterial = NoSunMaterial
  /\ children = [g \in Gens |-> <<>>]
  /\ starPoints = <<>>
  /\ galaxyUFade = [g \in Gens |-> NoFade]
  /\ loads = [g \in Gens |-> NoLoad]
  /\ created = [g \in Gens |-> {}]
  /\ disposals = [g \in Gens |-> [k \in Kinds |-> 0]]
  /\ adds = 0
  /\ threw = FALSE
  /\ drew = FALSE
  /\ repainted = NoMap
  /\ frame = NoFrame
  /\ fragment = NoFragment

Init == Constructed(StarCounts, StarSizes, SunPositions)

\* ------------------------------------------------------------------------
\* Private helpers (layer.ts 621-648)
\* ------------------------------------------------------------------------
\* a call that forgets the repaint request
noRepaint(m) == NoMap

\* this.map?.triggerRepaint(): the map that receives the request
triggerRepaint(m) == m

\* applySunPosition: the sun material after the call
applySunPosition(mat, azimuth, altitude) ==
  IF mat.id = 0 THEN mat
  ELSE [mat EXCEPT !.uSunDirection = sunDirectionFromAngles(azimuth, altitude)]

\* applyStarFade without the auto-fade test
applyStarFadeAlways(enabled, autoFade, altitude) ==
  IF ~enabled THEN FadeOne ELSE computeStarFade(altitude)

\* applyStarFade: the fade it hands to setFadeUniforms
applyStarFade(enabled, autoFade, altitude) ==
  IF ~enabled \/ ~autoFade THEN FadeOne ELSE computeStarFade(altitude)

\* setFadeUniforms, star half: the star material after the call
setStarFade(mat, fade) ==
  IF mat.id = 0 THEN mat ELSE [mat EXCEPT !.uFade = fade]

\* setFadeUniforms, galaxy half: the galaxy uFade uniforms after the call
setGalaxyFade(uFades, ref, fade) ==
  IF ref = 0 THEN uFades ELSE [uFades EXCEPT ![ref] = fade]

setFadeUniforms(fade) ==
  /\ starMaterial' = setStarFade(starMaterial, fade)
  /\ galaxyUFade' = setGalaxyFade(galaxyUFade, galaxyMaterial, fade)

\* The last call: whether it threw, whether it drew the scene
\* (renderer.render), the map it asked to repaint (NoMap: none), and the
\* matrices it was given when it was a render call.
\* A call that returns normally after asking map m to repaint:
Returned(m) ==
  /\ threw' = FALSE
  /\ drew' = FALSE
  /\ repainted' = m
  /\ frame' = NoFrame
  /\ fragment' = NoFragment

\* ------------------------------------------------------------------------
\* Public API - dynamic updates (layer.ts 369-411)
\* ------------------------------------------------------------------------
setSunPosition(azimuth, altitude) ==
  /\ _sunAzimuth' = azimuth
  /\ _sunAltitude' = altitude
  /\ sunMaterial' = applySunPosition(sunMaterial, azimuth, altitude)
  /\ setFadeUniforms(applyStarFade(_sunEnabled, _autoFadeStars, altitude))
  /\ Returned(triggerRepaint(map))
  /\ UNCHANGED <<options, _sunEnabled, _sunSize, _sunIntensity>>
  /\ UNCHANGED <<renderer, scene, camera, map, galaxyMaterial, sunMesh>>
  /\ UNCHANGED <<children, starPoints, loads, created, disposals, adds>>

\* the sun mesh after setSunEnabled
setVisible(mesh, enabled) ==
  IF mesh.id = 0 THEN mesh ELSE [mesh EXCEPT !.visible = enabled]

\* the fade setSunEnabled hands to setFadeUniforms
enabledFade(enabled, autoFade, altitude) ==
  IF ~enabled THEN FadeOne ELSE applyStarFade(enabled, autoFade, altitude)

setSunEnabled(enabled) ==
  /\ _sunEnabled' = enabled
  /\ sunMesh' = setVisible(sunMesh, enabled)
  /\ setFadeUniforms(enabledFade(enabled, _autoFadeStars, _sunAltitude))
  /\ Returned(triggerRepaint(map))
  /\ UNCHANGED <<options, _sunAzimuth, _sunAltitude, _sunSize, _sunIntensity>>
  /\ UNCHANGED <<renderer, scene, camera, map, galaxyMaterial, sunMaterial>>
  /\ UNCHANGED <<children, starPoints, loads, created, disposals, adds>>

\* setSunIntensity that builds a new material around the new value
rebuildIntensityUniform(mat, intensity) ==
  IF mat.id = 0 THEN mat
  ELSE [mat EXCEPT !.id = MaxAdds + 1, !.uSunIntensity = intensity]

\* the sun material after setSunIntensity
setIntensityUniform(mat, intensity) ==
  IF mat.id = 0 THEN mat ELSE [mat EXCEPT !.uSunIntensity = intensity]

setSunIntensity(intensity) ==
  /\ _sunIntensity' = intensity
  /\ sunMaterial' = setIntensityUniform(sunMaterial, intensity)
  /\ Returned(triggerRepaint(map))
  /\ UNCHANGED <<options, _sunEnabled, _sunAzimuth, _sunAltitude, _sunSize>>
  /\ UNCHANGED <<renderer, scene, camera, map, starMaterial, galaxyMaterial,
                 sunMesh>>
  /\ UNCHANGED heap

\* setSunSize that stores the size and leaves the uniform for later
keepRadiusUniform(mat, size) == mat

\* the sun material after setSunSize
setRadiusUniform(mat, size) ==
  IF mat.id = 0 THEN mat ELSE [mat EXCEPT !.uSunAngularRadius = sunSizeToCos(size)]

setSunSize(size) ==
  /\ _sunSize' = size
  /\ sunMaterial' = setRadiusUniform(sunMaterial, size)
  /\ Returned(triggerRepaint(map))
  /\ UNCHANGED <<options, _sunEnabled, _sunAzimuth, _sunAltitude, _sunIntensity>>
  /\ UNCHANGED <<renderer, scene, camera, map, starMaterial, galaxyMaterial,
                 sunMesh>>
  /\ UNCHANGED heap

\* ------------------------------------------------------------------------
\* CustomLayerInterface (layer.ts 417-576)
\* ------------------------------------------------------------------------
\* an initial fade that follows the altitude whatever the two flags say
initialFadeAlways(enabled, autoFade, altitude) == computeStarFade(altitude)

\* const initialFade = ... (layer.ts 422-425)
initialFade(enabled, autoFade, altitude) ==
  IF enabled /\ autoFade THEN computeStarFade(altitude) ELSE FadeOne

\* an onAdd that starts the load without looking at galaxyTextureUrl
startLoadAlways(url, m, fade) ==
  [status |-> "pending", map |-> m, fade |-> fade]

\* loader.load(url, callback): the pending load and what its callback captured
startLoad(url, m, fade) ==
  IF url # NoUrl THEN [status |-> "pending", map |-> m, fade |-> fade]
  ELSE NoLoad

\* a createSun that builds the material from the default intensity and size
createSunMaterialDefault(g) ==
  [id |-> g,
   uSunDirection |-> sunDirectionFromAngles(_sunAzimuth, _sunAltitude),
   uSunIntensity |-> 15,
   uSunAngularRadius |-> sunSizeToCos(100)]

\* createSun: the sun material it builds for generation g
createSunMaterial(g) ==
  [id |-> g,
   uSunDirection |-> sunDirectionFromAngles(_sunAzimuth, _sunAltitude),
   uSunIntensity |-> _sunIntensity,
   uSunAngularRadius |-> sunSizeToCos(_sunSize)]

\* createSun: the sun mesh it builds for generation g
createSunMesh(g) == [id |-> g, visible |-> _sunEnabled]

\* onAdd tests nothing: called on a layer that is already added, it replaces
\* the map, scene, camera, star and sun objects and renderer by those of a
\* new generation and disposes nothing of the old one.  draws are the values
\* Math.random() returns in the star loop.  The number of onAdd calls of a
\* behaviour is capped at MaxAdds.
\* new Float32Array(count * 3) throws a RangeError for a negative length: the
\* call then ends after the load was started, before any star is built.
onAdd(m, draws) ==
  LET g == adds + 1
      fade == initialFade(_sunEnabled, _autoFadeStars, _sunAltitude)
  IN
  /\ adds < MaxAdds
  /\ adds' = g
  /\ map' = m
  /\ scene' = g
  /\ camera' = [id |-> g, projectionMatrix |-> OfIntegers(Identity4)]
  /\ loads' = [loads EXCEPT ![g] = startLoad(galaxyTextureUrl, m, fade)]
  /\ IF starCount < 0
     THEN /\ threw' = TRUE
          /\ UNCHANGED <<renderer, starMaterial, sunMesh, sunMaterial,
                         children, starPoints, created>>
     ELSE /\ threw' = FALSE
          /\ starPoints' = GenerateStars(starCount, starSize, draws)
          /\ starMaterial' = [id |-> g, uFade |-> fade]
          /\ sunMaterial' = createSunMaterial(g)
          /\ sunMesh' = createSunMesh(g)
          /\ children' = [children EXCEPT ![g] = @ \o <<"stars", "sun">>]
          /\ renderer' = g
          /\ created' = [created EXCEPT ![g] = @ \cup
                           {"starGeometry", "starMaterial", "sunGeometry",
                            "sunMaterial", "renderer"}]
  /\ drew' = FALSE
  /\ repainted' = NoMap
  /\ frame' = NoFrame
  /\ fragment' = NoFragment
  /\ UNCHANGED <<options, sunState, galaxyMaterial, galaxyUFade, disposals>>

\* a callback that adds the skybox with scene.add, behind the other children
push(nodes, node) == nodes \o <<node>>

\* scene.children.unshift(skybox)
unshift(nodes, node) == <<node>> \o nodes

\* a callback that reads this.scene when it runs
currentScene(captured, current) == current

\* the scene the callback adds the skybox to: the const scene of its onAdd
\* (layer.ts 419, 457)
capturedScene(captured, current) == captured

\* The texture load of generation g succeeds: its callback (layer.ts 436-459)
\* runs with the scene, fade and map it captured at onAdd, whatever happened
\* to the layer since.  The closure is dropped once it has run.
loadCallback(g) ==
  /\ loads[g].status = "pending"
  /\ loads' = [loads EXCEPT ![g] = [NoLoad EXCEPT !.status = "loaded"]]
  /\ galaxyUFade' = [galaxyUFade EXCEPT ![g] = loads[g].fade]
  /\ galaxyMaterial' = g
  /\ children' = [children EXCEPT
                    ![capturedScene(g, scene)] = unshift(@, "galaxy")]
  /\ created' = [created EXCEPT ![g] = @ \cup
                   {"galaxyTexture", "galaxyGeometry", "galaxyMaterial"}]
  /\ threw' = FALSE
  /\ drew' = FALSE
  /\ repainted' = triggerRepaint(loads[g].map)
  /\ frame' = NoFrame
  /\ fragment' = NoFragment
  /\ UNCHANGED <<options, sunState, renderer, scene, camera, map,
                 starMaterial, sunMesh, sunMaterial, starPoints, disposals,
                 adds>>

\* the texture load of generation g fails: no onError callback was passed
loadError(g) ==
  /\ loads[g].status = "pending"
  /\ loads' = [loads EXCEPT ![g] = [NoLoad EXCEPT !.status = "failed"]]
  /\ threw' = FALSE
  /\ drew' = FALSE
  /\ repainted' = NoMap
  /\ frame' = NoFrame
  /\ fragment' = NoFragment
  /\ UNCHANGED <<options, sunState, refs, children, starPoints, galaxyUFade,
                 created, disposals, adds>>

\* a render without its first line
canRenderAlways == TRUE

\* a render that also waits for the galaxy material
canRenderLoaded ==
  renderer # 0 /\ scene # 0 /\ camera.id # 0 /\ galaxyMaterial # 0

\* whether render gets past its first line (layer.ts 522)
canRender == renderer # 0 /\ scene # 0 /\ camera.id # 0

\* a render that builds a new camera for every frame
replaceCamera(cam, P, MVP) ==
  [id |-> cam.id + MaxAdds, projectionMatrix |-> AlignedProjection(P, MVP)]

\* the camera after this.camera.projectionMatrix.copy(...) (layer.ts 540)
alignCamera(cam, P, MVP) ==
  [cam EXCEPT !.projectionMatrix = AlignedProjection(P, MVP)]

render(P, MVP) ==
  /\ IF canRender
     THEN /\ camera' = alignCamera(camera, P, MVP)
          /\ drew' = TRUE
     ELSE /\ camera' = camera
          /\ drew' = FALSE
  /\ threw' = FALSE
  /\ repainted' = NoMap
  /\ frame' = [projectionMatrix |-> P, modelViewProjectionMatrix |-> MVP]
  /\ fragment' = NoFragment
  /\ UNCHANGED <<options, sunState, renderer, scene, map, starMaterial,
                 galaxyMaterial, sunMesh, sunMaterial, heap>>

\* what the traverse callback disposes of one node (layer.ts 558-565)
disposedOf(node) ==
  CASE node = "stars" -> {"starGeometry", "starMaterial"}
    [] node = "sun" -> {"sunGeometry", "sunMaterial"}
    [] node = "galaxy" -> {"galaxyGeometry", "galaxyMaterial"}

dispose(d, kinds) == [k \in Kinds |-> IF k \in kinds THEN d[k] + 1 ELSE d[k]]

\* scene.traverse(...) over the children of the scene
RECURSIVE traverse(_, _)
traverse(nodes, d) ==
  IF nodes = <<>> THEN d
  ELSE traverse(Tail(nodes), dispose(d, disposedOf(Head(nodes))))

\* the disposals after this.scene?.traverse(...) and this.renderer?.dispose()
disposeAll(all, sc, rd) ==
  LET afterScene ==
        IF sc = 0 THEN all ELSE [all EXCEPT ![sc] = traverse(children[sc], @)]
  IN  IF rd = 0 THEN afterScene
      ELSE [afterScene EXCEPT ![rd] = dispose(@, {"renderer"})]

\* onRemove that forgets this.scene = null
keepScene(sc) == sc

\* the scene reference after onRemove
clearScene(sc) == 0

\* After onRemove no reference leads to the star points or to a galaxy
\* material any more (the scene and galaxyMaterial are null and a pending
\* callback reads neither): their values leave the state.
onRemove ==
  /\ disposals' = disposeAll(disposals, scene, renderer)
  /\ renderer' = 0
  /\ scene' = clearScene(scene)
  /\ camera' = NoCamera
  /\ map' = NoMap
  /\ starMaterial' = NoStarMaterial
  /\ galaxyMaterial' = 0
  /\ sunMesh' = NoSunMesh
  /\ sunMaterial' = NoSunMaterial
  /\ starPoints' = <<>>
  /\ galaxyUFade' = [g \in Gens |-> NoFade]
  /\ threw' = FALSE
  /\ drew' = FALSE
  /\ repainted' = NoMap
  /\ frame' = NoFrame
  /\ fragment' = NoFragment
  /\ UNCHANGED <<options, sunState, children, loads, created, adds>>

\* ------------------------------------------------------------------------
\* Sun fragment shader, main (layer.ts 186-249)
\* r is the normalized angular distance in hundredths; the noise-driven
\* disc and ray terms are in thousandths, the corona in units of 10^-7, the
\* intensity in tenths as in _sunIntensity, the brightness in units of
\* 10^-8 and alpha in ten-thousandths.
\* ------------------------------------------------------------------------
\* c1 + c2 + c3 (layer.ts 225-227) at the radii of Radii, in units of 10^-7
corona(r) ==
  CASE r = 0 -> 10300000
    [] r = 50 -> 10300000
    [] r = 85 -> 10160097
    [] r = 86 -> 10127904
    [] r = 100 -> 9441405
    [] r = 104 -> 9190186
    [] r = 105 -> 9124846
    [] r = 300 -> 1854051
    [] r = 1199 -> 127726
    [] r = 1200 -> 127466
    [] r = 1500 -> 72695
    [] r = 1501 -> 72567
    [] r = 3000 -> 5859

\* a term in thousandths, in the unit 10^-7 of the corona
Thousandths(x) == x * Limb

\* brightness before the intensity, in units of 10^-7: the disc term counts
\* for r < 1.05, the ray term for 0.85 < r < 12 (layer.ts 201-242); disc and
\* rays are the values the noise gives to the two terms
sunBrightness(r, disc, rays) ==
  (IF r < 105 THEN Thousandths(disc) ELSE 0) + corona(r) +
  (IF r > 85 /\ r < 1200 THEN Thousandths(rays) ELSE 0)

\* clamp(x, lo, hi)
clamp(x, lo, hi) == IF x < lo THEN lo ELSE IF x > hi THEN hi ELSE x

\* 0.002 in the unit 10^-8 of the brightness
Epsilon == (2 * Scale) \div 1000

\* gl_FragColor.a: the brightness clamped to [0, 1], to the nearest
\* ten-thousandth
alphaOf(brightness) == (clamp(brightness, 0, Scale) + Limb \div 2) \div Limb

discarded(r, disc, rays, intensity) ==
  [r |-> r, disc |-> disc, rays |-> rays, intensity |-> intensity,
   written |-> FALSE, alpha |-> 0]

\* a main without the test of the brightness against 0.002
sunFragmentNoEpsilon(r, disc, rays, intensity) ==
  IF r > 1500 THEN discarded(r, disc, rays, intensity)
  ELSE [r |-> r, disc |-> disc, rays |-> rays, intensity |-> intensity,
        written |-> TRUE,
        alpha |-> alphaOf(sunBrightness(r, disc, rays) * intensity)]

\* main: the fragment it leaves (layer.ts 194, 244-248)
sunFragment(r, disc, rays, intensity) ==
  IF r > 1500 THEN discarded(r, disc, rays, intensity)
  ELSE LET brightness == sunBrightness(r, disc, rays) * intensity
       IN  IF brightness < Epsilon THEN discarded(r, disc, rays, intensity)
           ELSE [r |-> r, disc |-> disc, rays |-> rays,
                 intensity |-> intensity, written |-> TRUE,
                 alpha |-> alphaOf(brightness)]

\* the GPU shades one fragment of the visible sun mesh with the uniforms of
\* the sun material
shade(r, disc, rays) ==
  /\ sunMaterial.id # 0
  /\ sunMesh.visible
  /\ fragment' = sunFragment(r, disc, rays, sunMaterial.uSunIntensity)
  /\ UNCHANGED <<options, sunState, refs, heap, call>>

\* ------------------------------------------------------------------------
\* The layer driven by the host map and the application
\* ------------------------------------------------------------------------
FrameProjections == {Perspective}
FrameViews == {View(Linear2, <<1, -2, 3>>)}

Next ==
  \/ \E draws \in RandomStreams : onAdd(HostMap(adds + 1), draws)
  \/ \E g \in Gens : loadCallback(g)
  \/ \E g \in Gens : loadError(g)
  \/ \E pos \in SunPositions : setSunPosition(pos[1], pos[2])
  \/ \E enabled \in BOOLEAN : setSunEnabled(enabled)
  \/ \E intensity \in Intensities : setSunIntensity(intensity)
  \/ \E size \in Sizes : setSunSize(size)
  \/ \E P \in FrameProjections, V \in FrameViews :
       render(P, multiplyMatrices(P, V))
  \/ onRemove

Spec == Init /\ [][Next]_vars

\* ------------------------------------------------------------------------
\* The life cycle and the texture loads, with the sun at its default size
\* and intensity: every step of the layer but setSunIntensity and setSunSize
\* ------------------------------------------------------------------------
NextLoads ==
  \/ \E draws \in RandomStreams : onAdd(HostMap(adds + 1), draws)
  \/ \E g \in Gens : loadCallback(g)
  \/ \E g \in Gens : loadError(g)
  \/ \E pos \in SunPositions : setSunPosition(pos[1], pos[2])
  \/ \E enabled \in BOOLEAN : setSunEnabled(enabled)
  \/ \E P \in FrameProjections, V \in FrameViews :
       render(P, multiplyMatrices(P, V))
  \/ onRemove

SpecLoads == Init /\ [][NextLoads]_vars

\* ------------------------------------------------------------------------
\* The four setters on a layer built without a galaxy texture, across adds
\* and removes
\* ------------------------------------------------------------------------
InitSun ==
  /\ Init
  /\ galaxyTextureUrl = NoUrl

NextSun ==
  \/ \E draws \in RandomStreams : onAdd(HostMap(adds + 1), draws)
  \/ \E pos \in SunPositions : setSunPosition(pos[1], pos[2])
  \/ \E enabled \in BOOLEAN : setSunEnabled(enabled)
  \/ \E intensity \in Intensities : setSunIntensity(intensity)
  \/ \E size \in Sizes : setSunSize(size)
  \/ onRemove

SpecSun == InitSun /\ [][NextSun]_vars

\* ------------------------------------------------------------------------
\* The camera alignment of render, over every projection and view, for a
\* layer built without a galaxy texture and with the sun disabled
\* ------------------------------------------------------------------------
InitCamera ==
  /\ Init
  /\ galaxyTextureUrl = NoUrl
  /\ ~_sunEnabled
  /\ _autoFadeStars
  /\ _sunAltitude = 10

NextCamera ==
  \/ \E draws \in RandomStreams : onAdd(HostMap(adds + 1), draws)
  \/ \E P \in Projections, V \in Views : render(P, multiplyMatrices(P, V))
  \/ onRemove

SpecCamera == InitCamera /\ [][NextCamera]_vars

\* ------------------------------------------------------------------------
\* The celestial functions, over many sun positions and sizes, for a layer
\* built without a galaxy texture, with the sun enabled and auto-fade on
\* ------------------------------------------------------------------------
SkyAzimuths == {-90, 0, 45, 90, 180, 270, 360, 405, 450}
SkyAltitudes == (-20..2) \cup {-100, -90, -45, -30, 45, 90, 95}
SkyPositions ==
  { <<az, alt>> : az \in {0, 90}, alt \in SkyAltitudes } \cup
  { <<az, alt>> : az \in SkyAzimuths, alt \in {-90, 0, 45, 90} }
SkySizes == {0, 50, 100, 150, 200}

InitSky ==
  /\ Init
  /\ galaxyTextureUrl = NoUrl
  /\ _sunEnabled
  /\ _autoFadeStars

NextSky ==
  \/ \E draws \in RandomStreams : onAdd(HostMap(adds + 1), draws)
  \/ \E pos \in SkyPositions : setSunPosition(pos[1], pos[2])
  \/ \E size \in SkySizes : setSunSize(size)

SpecSky == InitSky /\ [][NextSky]_vars

\* ------------------------------------------------------------------------
\* The sun shader, over fragments at many distances and every sign of the
\* intensity, for a layer built without a galaxy texture and with the sun
\* enabled
\* ------------------------------------------------------------------------
Radii == {0, 50, 85, 86, 100, 104, 105, 300, 1199, 1200, 1500, 1501, 3000}
\* the disc term: surface * radial * rim * (1 - smoothstep), which the
\* sunspot factor can make negative
DiscTerms == {-300, 0, 600, 2500}
\* the ray term: ray * radialFade * 0.4, never negative
RayTerms == {0, 250, 720}
ShaderIntensities == {-5, 0, 1, 15, 30}

InitShader ==
  /\ Init
  /\ galaxyTextureUrl = NoUrl
  /\ _sunEnabled
  /\ _autoFadeStars
  /\ _sunAltitude = 10

NextShader ==
  \/ \E draws \in RandomStreams : onAdd(HostMap(adds + 1), draws)
  \/ \E intensity \in ShaderIntensities : setSunIntensity(intensity)
  \/ \E r \in Radii, disc \in DiscTerms, rays \in RayTerms :
       shade(r, disc, rays)

SpecShader == InitShader /\ [][NextShader]_vars

\* ------------------------------------------------------------------------
\* A layer built with a negative starCount, without a galaxy texture
\* ------------------------------------------------------------------------
InitInvalid ==
  /\ Constructed(InvalidStarCounts, StarSizes, SunPositions)
  /\ galaxyTextureUrl = NoUrl

NextInvalid ==
  \/ \E draws \in RandomStreams : onAdd(HostMap(adds + 1), draws)
  \/ \E pos \in SunPositions : setSunPosition(pos[1], pos[2])
  \/ \E enabled \in BOOLEAN : setSunEnabled(enabled)
  \/ \E size \in Sizes : setSunSize(size)
  \/ onRemove

SpecInvalid == InitInvalid /\ [][NextInvalid]_vars

\* ------------------------------------------------------------------------
\* The star generation of onAdd, over every outcome of the four draws of a
\* star, for a layer built without a galaxy texture and with the sun
\* disabled
\* ------------------------------------------------------------------------
GeneratedCounts == {0, 1, 2}
GeneratedSizes == {1, 2, 3}

\* the four draws of one star, every outcome
Quads == { <<a, b, c, d>> : a \in 0..(RandDen - 1), b \in 0..(RandDen - 1),
                             c \in 0..(RandDen - 1), d \in 0..(RandDen - 1) }

\* the draws of two stars: one of them takes every outcome
StarStreams ==
  { q \o <<3, 1, 3, 3>> : q \in Quads } \cup
  { <<0, 0, 0, 0>> \o q : q \in Quads }

InitStars ==
  /\ Constructed(GeneratedCounts, GeneratedSizes, SunPositions)
  /\ galaxyTextureUrl = NoUrl
  /\ ~_sunEnabled
  /\ _autoFadeStars
  /\ _sunAltitude = 10

NextStars ==
  \E draws \in StarStreams : onAdd(HostMap(adds + 1), draws)

SpecStars == InitStars /\ [][NextStars]_vars

\* ------------------------------------------------------------------------
\* The sun direction, for a layer constructed with every sun position in
\* whole degrees, altitudes beyond the zenith and the nadir included, and
\* moved to positions whose azimuth is outside [0, 360)
\* ------------------------------------------------------------------------
DirectionAzimuths == 0..359
DirectionAltitudes == -100..95
DirectionPositions ==
  { <<az, alt>> : az \in DirectionAzimuths, alt \in DirectionAltitudes }
TurnedPositions == { <<-90, 95>>, <<437, -13>>, <<585, 95>>, <<720, -100>> }
\* the stars do not enter the direction: one stream of draws
DirectionStreams == { <<0, 0, 0, 0, 1, 1, 1, 1>> }

InitDirections ==
  /\ Constructed(StarCounts, StarSizes, DirectionPositions)
  /\ galaxyTextureUrl = NoUrl
  /\ _sunEnabled
  /\ _autoFadeStars

NextDirections ==
  \/ \E draws \in DirectionStreams : onAdd(HostMap(adds + 1), draws)
  \/ \E pos \in TurnedPositions : setSunPosition(pos[1], pos[2])

SpecDirections == InitDirections /\ [][NextDirections]_vars

\* ------------------------------------------------------------------------
\* Properties
\* ------------------------------------------------------------------------
\* a step that is a call of one of the four setters
SetterCall ==
  \/ \E pos \in SunPositions : setSunPosition(pos[1], pos[2])
  \/ \E enabled \in BOOLEAN : setSunEnabled(enabled)
  \/ \E intensity \in Intensities : setSunIntensity(intensity)
  \/ \E size \in Sizes : setSunSize(size)

\* the galaxy mesh of the scene the layer holds is there
GalaxyDrawn ==
  scene # 0 /\ \E i \in 1..Len(children[scene]) : children[scene][i] = "galaxy"

\* C1: while the layer is added, the uFade uniform of the star material is
\* computeStarFade(sun altitude) when the sun is enabled and auto-fade is
\* on, and 1.0 otherwise; it lies in [0, 1].
StarFadeFollowsSun ==
  starMaterial.id # 0 =>
    /\ starMaterial.uFade =
         IF _sunEnabled /\ _autoFadeStars
         THEN computeStarFade(_sunAltitude) ELSE FadeOne
    /\ starMaterial.uFade \in 0..FadeOne

\* C1 witness: a setter ran on the added layer and left the twilight fade
\* of altitude -9 (one half) in the star material
TwilightFadeApplied ==
  /\ starMaterial.id # 0
  /\ repainted = map
  /\ _sunEnabled /\ _autoFadeStars
  /\ _sunAltitude = -9
  /\ starMaterial.uFade = 2916

\* C2: while the sun is disabled, the fade of the stars and the fade of the
\* galaxy that is drawn are 1.0, whatever the altitude and whatever the
\* other setters did since.
DisabledSunShowsAll ==
  (~_sunEnabled /\ scene # 0) =>
    /\ starMaterial.id # 0 => starMaterial.uFade = FadeOne
    /\ GalaxyDrawn => galaxyUFade[scene] = FadeOne

\* the view V without its translation entries (elements 12, 13, 14)
WithoutTranslation(V) ==
  MatOf(LAMBDA r, c : IF c = 3 /\ r < 3 THEN 0 ELSE El(V, r, c))

\* the frame of the last render call was P and P * V
FrameOf(P, V) ==
  /\ frame.projectionMatrix = P
  /\ frame.modelViewProjectionMatrix = multiplyMatrices(P, V)

\* C3: after a render that drew with an invertible P and MVP = P * V, the
\* camera's projection matrix is P * V', V' being V with elements 12, 13 and
\* 14 zero and every other entry as in V.
AlignedCameraStripsTranslation ==
  drew =>
    \A P \in InvertibleProjections, V \in Views :
      FrameOf(P, V) =>
        camera.projectionMatrix =
          OfIntegers(multiplyMatrices(P, WithoutTranslation(V)))

\* C3 witness: a frame with a rotated, scaled and translated view was drawn
\* and the camera holds the perspective times the view's linear part
TranslatedFrameAligned ==
  /\ drew
  /\ FrameOf(Perspective, View(Linear2, <<1, -2, 3>>))
  /\ camera.projectionMatrix = OfIntegers(multiplyMatrices(Perspective, Linear2))

\* V1 and V2 differ at most in their translation entries
SameButTranslation(V1, V2) ==
  \A i \in (1..16) \ {13, 14, 15} : V1[i] = V2[i]

\* C4: after a render that drew with an invertible P and MVP = P * V1, the
\* camera's projection matrix is the one a render with MVP = P * V2 gives,
\* for every V2 that differs from V1 only in its translation, whatever the
\* earlier frames were.
CameraImmuneToTranslation ==
  drew =>
    \A P \in InvertibleProjections, V1 \in Views, V2 \in Views :
      (FrameOf(P, V1) /\ SameButTranslation(V1, V2)) =>
        camera.projectionMatrix =
          AlignedProjection(P, multiplyMatrices(P, V2))

\* C4 witness: a frame whose view is translated along z was drawn and the
\* camera is the one of the untranslated view
TranslationIgnored ==
  /\ drew
  /\ FrameOf(Orthographic, View(Linear3, <<0, 0, -7>>))
  /\ camera.projectionMatrix =
       AlignedProjection(Orthographic,
                         multiplyMatrices(Orthographic, Linear3))

\* C5: a render call given a singular projection matrix does not draw.
SingularFrameSkipsDrawing ==
  (frame # NoFrame /\ determinant(frame.projectionMatrix) = 0) => ~drew

\* C6: once the layer is removed, every resource created by any of its
\* onAdd calls and their texture loads has been disposed.
RemovedLayerHoldsNoResource ==
  map = NoMap =>
    \A g \in Gens : \A k \in created[g] : disposals[g][k] > 0

\* the layer is not added and holds no galaxy material
Removed == map = NoMap /\ galaxyMaterial = 0

\* C7: onRemove on a layer that was never added, or that was just removed,
\* raises no error, changes no field and no object, and disposes nothing.
RemoveIsIdempotent ==
  [][(Removed /\ onRemove) =>
       (~threw' /\ UNCHANGED <<options, sunState, refs, heap>>)]_vars

\* C7 witness: the first generation was removed, its renderer disposed
\* once, with its texture load still pending: the state in which a second
\* onRemove runs
RemovedOnce ==
  /\ Removed
  /\ adds = 1
  /\ disposals[1]["renderer"] = 1
  /\ loads[1].status = "pending"

\* C8 as stated: every setter call asks a map to repaint.
SettersAlwaysRepaint == [][SetterCall => repainted' \in Maps]_vars

\* C8: a setter call returns normally; made while the layer is added it
\* asks the layer's map to repaint, and made while the layer is not added it
\* asks nobody.
SettersRepaintWhileAdded ==
  [][SetterCall =>
       /\ ~threw'
       /\ IF map \in Maps THEN repainted' = map ELSE repainted' = NoMap]_vars

\* C8 witness: a layer without galaxy texture (no load callback repaints)
\* whose map was asked to repaint after the intensity was set to 0
SetterRepainted ==
  /\ galaxyTextureUrl = NoUrl
  /\ map \in Maps
  /\ repainted = map
  /\ _sunIntensity = 0
  /\ sunMaterial.uSunIntensity = 0

\* C9: while the layer is added, the sun uniforms and the sun mesh mirror
\* the stored sun state: direction of (azimuth, altitude), cosine of the
\* size's angular radius, intensity, and visible exactly when enabled.
SunUniformsMirrorState ==
  sunMaterial.id # 0 =>
    /\ sunMaterial.uSunDirection =
         sunDirectionFromAngles(_sunAzimuth, _sunAltitude)
    /\ sunMaterial.uSunAngularRadius = sunSizeToCos(_sunSize)
    /\ sunMaterial.uSunIntensity = _sunIntensity
    /\ sunMesh.id = sunMaterial.id
    /\ sunMesh.visible = _sunEnabled

\* C9 witness: on the added layer the sun was moved east, shrunk to size 50
\* and enabled, and the uniforms hold the derived values
SunUniformsUpdated ==
  /\ sunMaterial.id # 0
  /\ _sunAzimuth = 90 /\ _sunAltitude = -9 /\ _sunSize = 50 /\ _sunEnabled
  /\ sunMaterial.uSunDirection = <<98768834, -15643447, 0>>
  /\ sunMaterial.uSunAngularRadius = 99984770
  /\ sunMesh.visible

\* C10: a setter call creates, removes and replaces nothing: the renderer,
\* the scene and its children, the camera, the materials and the mesh stay
\* the same objects, nothing is created or disposed, and the star points
\* keep their positions, sizes and opacities.
SettersKeepScene ==
  [][SetterCall =>
       /\ UNCHANGED <<renderer, scene, camera, galaxyMaterial>>
       /\ UNCHANGED <<children, starPoints, created, disposals, loads, adds>>
       /\ starMaterial'.id = starMaterial.id
       /\ sunMaterial'.id = sunMaterial.id
       /\ sunMesh'.id = sunMesh.id]_vars

\* C10 witness: the added layer holds its two stars after a setter call
\* that changed the intensity
StarsKeptAfterSetter ==
  /\ scene # 0
  /\ Len(starPoints) = 2
  /\ children[scene] = <<"stars", "sun">>
  /\ repainted = map
  /\ sunMaterial.uSunIntensity = 0

\* whether a node of that name is among the children of a scene
Has(nodes, node) == \E i \in 1..Len(nodes) : nodes[i] = node

\* the index of a node among the children of a scene that holds it
IndexOf(nodes, node) == CHOOSE i \in 1..Len(nodes) : nodes[i] = node

\* a step that is an onAdd call
OnAddCall == \E draws \in RandomStreams : onAdd(HostMap(adds + 1), draws)

\* C11: a scene whose texture load has succeeded holds the galaxy mesh at
\* index 0 of its children, before the star points and the sun mesh,
\* whatever setter, render or remove calls came before or after the load.
GalaxyIsBackmost ==
  \A g \in Gens :
    /\ loads[g].status = "loaded" => Has(children[g], "galaxy")
    /\ Has(children[g], "galaxy") =>
         /\ children[g][1] = "galaxy"
         /\ IndexOf(children[g], "galaxy") < IndexOf(children[g], "stars")
         /\ IndexOf(children[g], "galaxy") < IndexOf(children[g], "sun")

\* C11 witness: the load succeeded after a frame had been drawn with the
\* stars and sun alone, and the galaxy mesh is the first child of the scene
GalaxyInsertedFirst ==
  /\ scene # 0
  /\ loads[scene].status = "loaded"
  /\ children[scene] = <<"galaxy", "stars", "sun">>
  /\ camera.projectionMatrix # OfIntegers(Identity4)
  /\ repainted = map

\* C12: a scene holds a galaxy mesh only once its load has succeeded; a
\* layer without galaxyTextureUrl starts no load and never gets a galaxy
\* mesh; every scene built by onAdd holds the star points and the sun
\* mesh, whatever the state of the load.
GalaxyOnlyAfterLoad ==
  \A g \in Gens :
    /\ Has(children[g], "galaxy") => loads[g].status = "loaded"
    /\ galaxyTextureUrl = NoUrl =>
         loads[g].status = "none" /\ ~Has(children[g], "galaxy")
    /\ g <= adds => Has(children[g], "stars") /\ Has(children[g], "sun")

\* C12 witness: a frame was drawn while the load was still pending, from a
\* scene that holds the star points and the sun mesh and no galaxy mesh
DrawnWhileLoadPending ==
  /\ scene # 0
  /\ loads[scene].status = "pending"
  /\ children[scene] = <<"stars", "sun">>
  /\ drew

\* C13: once the texture load of a scene has failed, it stays failed (no
\* second load), the scene never gets a galaxy mesh, no call throws, and a
\* render call on the added layer (the call that leaves its matrices in
\* frame) draws the scene with its star points and sun mesh.
FailedLoadIsHarmless ==
  [][\A g \in Gens :
       loads[g].status = "failed" =>
         /\ ~Has(children[g], "galaxy")
         /\ loads'[g].status = "failed"
         /\ ~Has(children'[g], "galaxy")
         /\ ~threw'
         /\ (frame' # NoFrame /\ scene = g) =>
              drew' /\ children'[g] = <<"stars", "sun">>]_vars

\* C13 witness: the load failed and a later render call drew the star
\* points and the sun mesh
DrawnAfterFailedLoad ==
  /\ scene # 0
  /\ loads[scene].status = "failed"
  /\ children[scene] = <<"stars", "sun">>
  /\ drew
  /\ ~threw

\* C14: the callback of a successful load asks the map it captured at onAdd
\* to repaint, and returns with the galaxy mesh inserted at index 0.
LoadRequestsRepaint ==
  [][\A g \in Gens :
       loadCallback(g) =>
         /\ repainted' \in Maps
         /\ repainted' = loads[g].map
         /\ children'[g][1] = "galaxy"
         /\ ~Has(children[g], "galaxy")]_vars

\* C14 witness: the callback of the first scene has run on the added layer:
\* the map was asked to repaint and the galaxy mesh shows the fade captured
\* at onAdd
RepaintAfterLoad ==
  /\ scene = 1
  /\ repainted = map
  /\ loads[1].status = "loaded"
  /\ children[1][1] = "galaxy"
  /\ galaxyMaterial = 1
  /\ drew = FALSE

\* C15: onAdd builds the star material with a uFade that the configuration
\* determines: with the sun enabled and auto-fade on, 1.0 for an altitude of
\* -18 or less, 0.0 for an altitude of 0 or more, computeStarFade(altitude),
\* strictly between the two, in between; with the sun disabled or auto-fade
\* off, 1.0.
InitialFadeFromConfig ==
  [][OnAddCall =>
       IF _sunEnabled /\ _autoFadeStars
       THEN /\ _sunAltitude = -30 => starMaterial'.uFade = FadeOne
            /\ _sunAltitude = 10 => starMaterial'.uFade = 0
            /\ _sunAltitude = -9 =>
                 /\ starMaterial'.uFade > 0
                 /\ starMaterial'.uFade < FadeOne
            /\ starMaterial'.uFade = computeStarFade(_sunAltitude)
       ELSE starMaterial'.uFade = FadeOne]_vars

\* C15 witness: onAdd was the last call of a layer configured with the sun
\* enabled at altitude -9 and auto-fade on, and the star material holds the
\* twilight fade of one half
TwilightFadeAtAdd ==
  /\ adds = 1
  /\ starMaterial.id = 1
  /\ _sunEnabled /\ _autoFadeStars /\ _sunAltitude = -9
  /\ starMaterial.uFade = 2916
  /\ loads[1].status \in {"none", "pending"}
  /\ repainted = NoMap /\ ~drew /\ frame = NoFrame

\* C16: the fade of the star material is 0 for a sun altitude of 0 or more,
\* 1 for an altitude of -18 or less, and t * t * (3 - 2 * t) with
\* t = -altitude / 18 in between; in particular 0 at altitude 0 and 1 at
\* altitude -18.
StarFadeIsSmoothstep ==
  starMaterial.id # 0 =>
    LET k == -_sunAltitude
        fade == starMaterial.uFade
    IN  /\ _sunAltitude >= 0 => fade = 0
        /\ _sunAltitude <= -18 => fade = FadeOne
        /\ (_sunAltitude < 0 /\ _sunAltitude > -18) =>
             fade * 18 * 18 * 18 = FadeOne * (k * k * (3 * 18 - 2 * k))
        /\ _sunAltitude = 0 => fade = 0
        /\ _sunAltitude = -18 => fade = FadeOne

\* C16 witness: setSunPosition moved the sun to altitude -6 on the added
\* layer and the star material holds the ramp value 7/27
RampFadeApplied ==
  /\ starMaterial.id # 0
  /\ _sunAltitude = -6
  /\ repainted = map
  /\ starMaterial.uFade * 27 = FadeOne * 7

\* the distance of two integers
Distance(a, b) == IF a >= b THEN a - b ELSE b - a

\* C17: a setSunPosition call that lowers the sun never lowers the fade, a
\* call that moves the sun by one degree moves the fade by at most 1/12
\* (no jump, at the breakpoints 0 and -18 in particular), and the fade is in
\* [0, 1] for every altitude, also outside [-90, 90].
StarFadeIsMonotone ==
  [][(starMaterial.id # 0 /\ starMaterial'.id # 0) =>
       /\ _sunAltitude' <= _sunAltitude =>
            starMaterial'.uFade >= starMaterial.uFade
       /\ Distance(_sunAltitude', _sunAltitude) = 1 =>
            12 * Distance(starMaterial'.uFade, starMaterial.uFade) <= FadeOne
       /\ starMaterial'.uFade \in 0..FadeOne]_vars

\* C17 witness: the sun was moved to altitude -100, outside [-90, 90],
\* and the star material holds the fade 1
FadeBelowNadir ==
  /\ starMaterial.id # 0
  /\ _sunAltitude = -100
  /\ repainted = map
  /\ starMaterial.uFade = FadeOne

\* the square of a fixed-point value, over Scale * Scale, as two digits
\* <<high, low>> of base Scale (the low one not yet reduced)
Square(x) ==
  LET x1 == Abs(x) \div Limb
      x0 == Abs(x) % Limb
      cross == 2 * x1 * x0
  IN  << x1 * x1 + cross \div Limb, (cross % Limb) * Limb + x0 * x0 >>

\* two digits of base Scale with the carry of the low one moved up
Carried(p) == << p[1] + p[2] \div Scale, p[2] % Scale >>

\* the squared norm of a position, over Scale * Scale, in base Scale
NormSquared(v) ==
  LET s1 == Square(v[1])
      s2 == Square(v[2])
      s3 == Square(v[3])
  IN  Carried(<< s1[1] + s2[1] + s3[1], s1[2] + s2[2] + s3[2] >>)

\* the order of two numbers in base Scale
AtMost(p, q) == p[1] < q[1] \/ (p[1] = q[1] /\ p[2] <= q[2])

\* 1e-6 in the unit of the sine table
Tolerance == Scale \div 1000000

\* the length of v is 1 within 1e-6: (1 - 1e-6)^2 <= |v|^2 <= (1 + 1e-6)^2
UnitLength(v) ==
  /\ AtMost(Carried(Square(Scale - Tolerance)), NormSquared(v))
  /\ AtMost(NormSquared(v), Carried(Square(Scale + Tolerance)))

\* C18: onAdd with starCount N and starSize s builds exactly N star points,
\* each with a position of norm 1 (within 1e-6), a
\* size in [0.4 s, 1.4 s] and an opacity in [0.15, 1.0], for every outcome
\* of the random draws.
StarsWithinRanges ==
  starMaterial.id # 0 =>
    /\ Len(starPoints) = starCount
    /\ \A i \in 1..Len(starPoints) :
         /\ UnitLength(starPoints[i].position)
         /\ 10 * starPoints[i].aSize >= 4 * starSize * SizeDen
         /\ 10 * starPoints[i].aSize <= 14 * starSize * SizeDen
         /\ 100 * starPoints[i].aOpacity >= 15 * OpacityDen
         /\ starPoints[i].aOpacity <= OpacityDen

\* C18 witness: two stars of base size 3 were generated, the first one from
\* the draws (3/4, 1/4, 0, 0): off the axes, smallest and faintest
FaintStarGenerated ==
  /\ starMaterial.id # 0
  /\ starSize = 3
  /\ Len(starPoints) = 2
  /\ starPoints[1].position = <<0, -86602539, -50000000>>
  /\ starPoints[1].aSize * 10 = 4 * 3 * SizeDen
  /\ starPoints[1].aOpacity * 100 = 15 * OpacityDen

\* C19: the uSunAngularRadius uniform of a sun of size 100 is the cosine of
\* an angular radius of 1 degree, and the angular radius grows linearly with
\* the size: size / 100 degrees.
SizeHundredIsOneDegree ==
  (sunMaterial.id # 0 /\ _sunSize % 100 = 0) =>
    sunMaterial.uSunAngularRadius = Cos(_sunSize \div 100)

\* C20: the sun direction is +Z for azimuth 0 and altitude 0, +X for azimuth
\* 90, -Z for azimuth 180, -X for azimuth 270, +Y for altitude 90 and -Y for
\* altitude -90 at every azimuth, and an azimuth and that azimuth plus 360
\* give the same direction.
AxisConvention ==
  sunMaterial.id # 0 =>
    LET az == _sunAzimuth % 360
        d == sunMaterial.uSunDirection
    IN  /\ (_sunAltitude = 0 /\ az = 0) => d = <<0, 0, Scale>>
        /\ (_sunAltitude = 0 /\ az = 90) => d = <<Scale, 0, 0>>
        /\ (_sunAltitude = 0 /\ az = 180) => d = <<0, 0, -Scale>>
        /\ (_sunAltitude = 0 /\ az = 270) => d = <<-Scale, 0, 0>>
        /\ _sunAltitude = 90 => d = <<0, Scale, 0>>
        /\ _sunAltitude = -90 => d = <<0, -Scale, 0>>
        /\ d = sunDirectionFromAngles(az, _sunAltitude)

\* C20 witness: setSunPosition(450, 0) on the added layer left the sun
\* direction +X, as azimuth 90 does
SunDueEastAfterFullTurn ==
  /\ sunMaterial.id # 0
  /\ _sunAzimuth = 450
  /\ _sunAltitude = 0
  /\ repainted = map
  /\ sunMaterial.uSunDirection = <<Scale, 0, 0>>

\* C21: the uSunDirection uniform is a vector of length 1 within 1e-6 for
\* every azimuth and altitude the sun was constructed with or moved to,
\* altitudes outside [-90, 90] and azimuths outside [0, 360) included, and
\* of length exactly 1 at the multiples of 90 degrees.
SunDirectionIsUnit ==
  sunMaterial.id # 0 =>
    /\ UnitLength(sunMaterial.uSunDirection)
    /\ (_sunAzimuth % 90 = 0 /\ _sunAltitude % 90 = 0) =>
         NormSquared(sunMaterial.uSunDirection) = <<Scale, 0>>

\* C21 witness: setSunPosition(585, 95) on the added layer, an azimuth
\* beyond a full turn and an altitude beyond the zenith: the direction
\* points up and a little to the north-east
SunBeyondZenith ==
  /\ sunMaterial.id # 0
  /\ _sunAzimuth = 585
  /\ _sunAltitude = 95
  /\ repainted = map
  /\ sunMaterial.uSunDirection = <<6162842, 99619470, 6162842>>

\* the brightness of the last fragment, (disc + corona + rays) * intensity,
\* in units of 10^-8
FragmentBrightness ==
  ((IF fragment.r < 105 THEN Thousandths(fragment.disc) ELSE 0) +
   corona(fragment.r) +
   (IF fragment.r > 85 /\ fragment.r < 1200
    THEN Thousandths(fragment.rays) ELSE 0))
  * fragment.intensity

\* C22: a fragment of the sun is written exactly when r <= 15 and its
\* brightness (disc + corona + rays) * intensity is at least 0.002; the
\* alpha of a written fragment is that brightness clamped to [0, 1] (to the
\* nearest ten-thousandth); no fragment is written when the intensity is
\* zero or negative.
SunFragmentsAboveEpsilon ==
  fragment # NoFragment =>
    /\ fragment.written <=>
         (fragment.r <= 1500 /\ FragmentBrightness \div (Scale \div 1000) >= 2)
    /\ fragment.written =>
         /\ fragment.alpha >= 0 /\ fragment.alpha <= Limb
         /\ FragmentBrightness <= Scale =>
              Distance(Limb * fragment.alpha, FragmentBrightness)
                <= Limb \div 2
         /\ FragmentBrightness > Scale => fragment.alpha = Limb
    /\ fragment.intensity <= 0 => ~fragment.written

\* C22 witness: a fragment at r = 15 was written with the faint glow of
\* the corona alone, alpha 0.0109
FaintGlowWritten ==
  /\ fragment.r = 1500
  /\ fragment.intensity = 15
  /\ fragment.written
  /\ fragment.alpha = 109

\* C23: whenever the layer holds a galaxy material and a star material, the
\* uFade uniforms of the two are equal.
GalaxyFadeMatchesStars ==
  (galaxyMaterial # 0 /\ starMaterial.id # 0) =>
    galaxyUFade[galaxyMaterial] = starMaterial.uFade

\* C24: while the layer is removed, the renderer, scene, camera, map and
\* material references are all null, and no step asks a map to repaint,
\* whenever a load started before the removal completes.
RemovedLayerStaysSilent ==
  map = NoMap =>
    /\ renderer = 0 /\ scene = 0 /\ camera.id = 0
    /\ starMaterial.id = 0 /\ galaxyMaterial = 0 /\ sunMaterial.id = 0
    /\ repainted = NoMap

\* C25: on an added layer none of whose loads is pending and whose own load
\* has succeeded, the galaxy material reference is the material of the
\* galaxy mesh in the current scene.
GalaxyReferenceIsCurrent ==
  (scene # 0 /\ loads[scene].status = "loaded" /\
   \A g \in Gens : loads[g].status # "pending") =>
    galaxyMaterial = scene

\* C26: no call on a layer that is not added raises an error, a setter call
\* on it stores its arguments, and an onAdd call (the step that counts one
\* more add) builds the fade, the sun direction, the angular radius, the
\* intensity and the visibility of the sun mesh from the values stored by
\* the most recent setter calls.
AddUsesLatestSunState ==
  [][/\ (map = NoMap /\ map' = NoMap) => ~threw'
     /\ \A pos \in SunPositions :
          (map = NoMap /\ setSunPosition(pos[1], pos[2])) =>
            (_sunAzimuth' = pos[1] /\ _sunAltitude' = pos[2])
     /\ \A enabled \in BOOLEAN :
          (map = NoMap /\ setSunEnabled(enabled)) => _sunEnabled' = enabled
     /\ \A intensity \in Intensities :
          (map = NoMap /\ setSunIntensity(intensity)) =>
            _sunIntensity' = intensity
     /\ \A size \in Sizes :
          (map = NoMap /\ setSunSize(size)) => _sunSize' = size
     /\ adds' = adds + 1 =>
          /\ starMaterial'.uFade =
               IF _sunEnabled /\ _autoFadeStars
               THEN computeStarFade(_sunAltitude) ELSE FadeOne
          /\ sunMaterial'.uSunDirection =
               sunDirectionFromAngles(_sunAzimuth, _sunAltitude)
          /\ sunMaterial'.uSunAngularRadius = sunSizeToCos(_sunSize)
          /\ sunMaterial'.uSunIntensity = _sunIntensity
          /\ sunMesh'.visible = _sunEnabled
          /\ UNCHANGED sunState]_vars

\* C26 witness: the second onAdd was the last call and built the sun from
\* an intensity of 0, a size of 50 and the position (90, -9), none of them
\* defaults
SecondAddUsesSetValues ==
  /\ adds = 2
  /\ sunMaterial.id = 2
  /\ sunMaterial.uSunIntensity = 0
  /\ sunMaterial.uSunAngularRadius = 99984770
  /\ sunMaterial.uSunDirection = <<98768834, -15643447, 0>>
  /\ _sunEnabled /\ _autoFadeStars /\ starMaterial.uFade = 2916
  /\ sunMesh.visible
  /\ repainted = NoMap /\ ~drew /\ frame = NoFrame
  /\ loads[2].status \in {"none", "pending"}

\* C27: onAdd with a negative starCount raises no error and leaves the
\* layer added with renderer, scene and camera set and an empty star set.
NegativeCountAddsEmptySet ==
  (starCount < 0 /\ adds > 0 /\ map # NoMap) =>
    /\ ~threw
    /\ renderer # 0 /\ scene # 0 /\ camera.id # 0
    /\ starMaterial.id # 0
    /\ starPoints = <<>>

\* C28: a render call draws exactly when renderer, scene and camera are all
\* set; it raises no error, and on a layer that is not added it changes no
\* field and no object.
RenderOnlyWhileAdded ==
  [][frame' # NoFrame =>
       /\ ~threw'
       /\ drew' <=> (renderer # 0 /\ scene # 0 /\ camera.id # 0)
       /\ map = NoMap =>
            (~drew' /\ UNCHANGED <<options, sunState, refs, heap>>)]_vars

\* C28 witness: render was called on the removed layer and did not draw
RenderedWhileRemoved ==
  /\ adds = 1
  /\ map = NoMap
  /\ frame # NoFrame
  /\ ~drew
  /\ camera = NoCamera

\* how many children of a scene have that name
Count(nodes, node) == Cardinality({i \in 1..Len(nodes) : nodes[i] = node})

\* C29: every scene built by an onAdd holds exactly one star Points object
\* and exactly one sun mesh, and one galaxy mesh when its own load has
\* succeeded, none otherwise: a load callback inserts its galaxy into the
\* scene of the onAdd that started it and into no other.
OneOfEachPerScene ==
  \A g \in Gens :
    /\ g <= adds =>
         /\ Count(children[g], "stars") = 1
         /\ Count(children[g], "sun") = 1
         /\ Count(children[g], "galaxy") =
              IF loads[g].status = "loaded" THEN 1 ELSE 0
    /\ g > adds => children[g] = <<>>

\* C29 witness: after two adds both loads have succeeded and each scene
\* holds its own galaxy, star points and sun mesh
TwoScenesOneGalaxyEach ==
  /\ adds = 2
  /\ loads[1].status = "loaded" /\ loads[2].status = "loaded"
  /\ children[1] = <<"galaxy", "stars", "sun">>
  /\ children[2] = <<"galaxy", "stars", "sun">>

\* C30: a render call changes nothing but the projection matrix of the
\* camera: the stored sun state, the fade and sun uniforms, the visibility
\* of the sun mesh, the children of the scenes and every reference stay as
\* they are, and the camera stays the same object.
RenderTouchesCameraOnly ==
  [][frame' # NoFrame =>
       /\ UNCHANGED <<options, sunState, heap>>
       /\ UNCHANGED <<renderer, scene, map, starMaterial, galaxyMaterial,
                      sunMesh, sunMaterial>>
       /\ camera'.id = camera.id]_vars

\* C30 witness: a frame was drawn on the added layer with its galaxy
\* loaded: the camera holds the aligned projection and the sun uniforms
\* still hold the values of the stored state (90, -9)
FrameDrawnSunKept ==
  /\ scene # 0
  /\ drew
  /\ frame # NoFrame
  /\ camera.projectionMatrix # OfIntegers(Identity4)
  /\ children[scene] = <<"galaxy", "stars", "sun">>
  /\ _sunAzimuth = 90 /\ _sunAltitude = -9
  /\ sunMaterial.uSunDirection = <<98768834, -15643447, 0>>

====
